---- MODULE Spec2Model ----
(* Pairwise link / coincidence tables and the ratio reduction of the       *)
(* coincidence repository.  Floats are modelled as records: a NaN flag and *)
(* an integer value; IEEE comparison and arithmetic are the F* operators,  *)
(* while TLA+ equality of two such records is numpy's array_equal with     *)
(* equal_nan=True (NaN compared equal to NaN).  Vector positions are       *)
(* 1-based here, 0-based in the Python source.                             *)
EXTENDS Integers, Sequences, FiniteSets

VARIABLES series_ids, feature, link_arr, jacc_arr, ref_link, ref_jacc,
          tri, link_pairs, jacc_pairs, not_nan,
          n_links, n_jaccs, n_jl, n_pairs, jl_rat, jnl_rat, out, pc

vars == <<series_ids, feature, link_arr, jacc_arr, ref_link, ref_jacc,
          tri, link_pairs, jacc_pairs, not_nan,
          n_links, n_jaccs, n_jl, n_pairs, jl_rat, jnl_rat, out, pc>>

(* ---------------- bounds ---------------- *)
MaxN == 3
MaxId == 1
MaxPairs == 3

(* ---------------- float values ---------------- *)
NaN == [nan |-> TRUE, v |-> 0]
Fl(x) == [nan |-> FALSE, v |-> x]
isnan(a) == a.nan
\* IEEE ==: false as soon as one side is NaN
FEq(a, b) == ~a.nan /\ ~b.nan /\ a.v = b.v
FAdd(a, b) == IF a.nan \/ b.nan THEN NaN ELSE Fl(a.v + b.v)
FSub(a, b) == IF a.nan \/ b.nan THEN NaN ELSE Fl(a.v - b.v)
FMul(a, b) == IF a.nan \/ b.nan THEN NaN ELSE Fl(a.v * b.v)
\* bool -> float on assignment into a float array
B2F(b) == IF b THEN Fl(1) ELSE Fl(0)

Abs(x) == IF x < 0 THEN -x ELSE x
RECURSIVE GCD(_, _)
GCD(a, b) == IF b = 0 THEN a ELSE GCD(b, a % b)
Sign(x) == IF x < 0 THEN -1 ELSE 1

\* quotient values: an exact fraction in lowest terms, NaN or an infinity
QNaN == [kind |-> "nan", num |-> 0, den |-> 0]
QInf == [kind |-> "inf", num |-> 0, den |-> 0]
QRaise == [kind |-> "raise", num |-> 0, den |-> 0]
Frac(a, b) == [kind |-> "val", num |-> a, den |-> b]
Quot(a, b) == LET g == GCD(Abs(a), Abs(b))
              IN Frac(Sign(b) * (a \div g), Abs(b) \div g)
\* builtin float division: a zero divisor raises ZeroDivisionError
FDivRaises(a, b) == IF a.nan \/ b.nan THEN QNaN
                    ELSE IF b.v = 0 THEN QRaise
                    ELSE Quot(a.v, b.v)
\* numpy float64 true division: x/0 warns and gives inf, 0/0 gives NaN
FDiv(a, b) == IF a.nan \/ b.nan THEN QNaN
              ELSE IF b.v = 0 THEN (IF a.v = 0 THEN QNaN ELSE QInf)
              ELSE Quot(a.v, b.v)

(* ---------------- later version: coincidence/coincidence.py ------------ *)
zeros(n) == [i \in 1..n |-> [j \in 1..n |-> Fl(0)]]

\* link_table with line 21 (the NaN assignment) left out
link_table_no_nan(ids) ==
    LET n == Len(ids)
    IN [i \in 1..n |-> [j \in 1..n |-> B2F(FEq(ids[i], ids[j]))]]
link_table(ids) ==
    LET n == Len(ids)
        arr == [i \in 1..n |-> [j \in 1..n |-> B2F(FEq(ids[i], ids[j]))]]
    IN [i \in 1..n |-> [j \in 1..n |->
           IF isnan(FAdd(ids[i], ids[j])) THEN NaN ELSE arr[i][j]]]

\* jaccard_table with the 0-override applied for the row value only
jaccard_table_one_sided(col) ==
    LET n == Len(col)
        res == [i \in 1..n |-> [j \in 1..n |-> FMul(col[i], col[j])]]
        is_zero == [i \in 1..n |-> FEq(col[i], Fl(0))]
    IN [i \in 1..n |-> [j \in 1..n |->
           IF is_zero[i] THEN Fl(0) ELSE res[i][j]]]
\* jaccard_table without the 0-override (the plain outer product)
jaccard_table_outer(col) ==
    LET n == Len(col)
    IN [i \in 1..n |-> [j \in 1..n |-> FMul(col[i], col[j])]]
jaccard_table(col) ==
    LET n == Len(col)
        res == [i \in 1..n |-> [j \in 1..n |-> FMul(col[i], col[j])]]
        is_zero == [i \in 1..n |-> FEq(col[i], Fl(0))]
    IN [i \in 1..n |-> [j \in 1..n |->
           IF is_zero[i] \/ is_zero[j] THEN Fl(0) ELSE res[i][j]]]

\* nested-loop references of the test module
equal_to(col) ==
    LET n == Len(col)
    IN [i \in 1..n |-> [j \in 1..n |->
           IF isnan(col[i]) \/ isnan(col[j]) THEN NaN
           ELSE B2F(FEq(col[i], col[j]))]]
both_1(col) ==
    LET n == Len(col)
    IN [i \in 1..n |-> [j \in 1..n |->
           IF FEq(Fl(0), col[i]) \/ FEq(Fl(0), col[j]) THEN Fl(0)
           ELSE IF isnan(FAdd(col[i], col[j])) THEN NaN
           ELSE Fl(1)]]

(* ---------------- triangle extraction ---------------- *)
\* np.tril_indices(n, -1): (1,0), (2,0), (2,1), ... row by row
RECURSIVE tril_indices(_)
tril_indices(n) == IF n <= 1 THEN <<>>
                   ELSE tril_indices(n - 1) \o [j \in 1..(n - 1) |-> <<n, j>>]
\* strict upper triangle, row by row: (0,1), (0,2), ..., (1,2), ...
RECURSIVE triu_from(_, _)
triu_from(i, n) == IF i >= n THEN <<>>
                   ELSE [k \in 1..(n - i) |-> <<i, i + k>>] \o triu_from(i + 1, n)
triu_indices(n) == triu_from(1, n)
Take(arr, inds) == [k \in 1..Len(inds) |-> arr[inds[k][1]][inds[k][2]]]
Indices(t, n) == IF t = "lower" THEN tril_indices(n) ELSE triu_indices(n)

(* ---------------- calc_ratios ---------------- *)
\* boolean-mask indexing: the elements whose mask entry is true, in order
RECURSIVE Select(_, _)
Select(s, mask) == IF s = <<>> THEN <<>>
                   ELSE IF mask[1] THEN <<s[1]>> \o Select(Tail(s), Tail(mask))
                   ELSE Select(Tail(s), Tail(mask))
RECURSIVE FSum(_)
FSum(s) == IF s = <<>> THEN Fl(0) ELSE FAdd(s[1], FSum(Tail(s)))
\* a mask that looks at the link values only
mask_link_only(lp, jp) == [k \in 1..Len(lp) |-> ~isnan(lp[k])]
mask_not_nan(lp, jp) == [k \in 1..Len(lp) |-> ~isnan(FAdd(lp[k], jp[k]))]
\* non-link ratio that forgets to take the linked coincidences out
jnl_ratio_no_sub(njaccs, njl, npairs, nlinks) ==
    FDiv(njaccs, FSub(Fl(npairs), nlinks))
jnl_ratio(njaccs, njl, npairs, nlinks) ==
    FDiv(FSub(njaccs, njl), FSub(Fl(npairs), nlinks))
jl_ratio(njl, nlinks) == FDiv(njl, nlinks)

(* ---------------- earlier version: coincidence.py ---------------- *)
\* for i, series in enumerate(series_ids): skip NaN, else fill column i
RECURSIVE link_loop(_, _, _)
link_loop(ids, arr, i) ==
    IF i > Len(ids) THEN arr
    ELSE IF isnan(ids[i]) THEN link_loop(ids, arr, i + 1)
    ELSE link_loop(ids,
                   [r \in 1..Len(ids) |->
                       [arr[r] EXCEPT ![i] = B2F(FEq(ids[r], ids[i]))]],
                   i + 1)
\* the earlier builder given the later builder's NaN propagation
link_table_earlier_nan(ids) == link_table(ids)
link_table_earlier(ids) == link_loop(ids, zeros(Len(ids)), 1)
\* sameas(col, operator.eq): 1 where op(col[i], col[j]) is true, else 0
sameas_eq(col) ==
    LET n == Len(col)
    IN [i \in 1..n |-> [j \in 1..n |->
           IF FEq(col[i], col[j]) THEN Fl(1) ELSE zeros(n)[i][j]]]

(* ---------------- inputs ---------------- *)
IdDomain == {Fl(x) : x \in 0..MaxId} \cup {NaN}
FeatDomain == {Fl(0), Fl(1), NaN}
Vec(s) == [k \in 1..Len(s) |-> IF s[k] < 0 THEN NaN ELSE Fl(s[k])]
\* the literal inputs of test_jaccard, test_jaccard2 and test_jaccard_nan
\* (-1 written for np.nan)
Ids1 == Vec(<<0, 1, 1, 2, 3, 3, 3, 4>>)
Feat1 == Vec(<<0, 0, 1, 0, 1, 1, 1, 0>>)
Ids2 == Vec(<<0, 0, 0, 1, 2>>)
Feat2 == Vec(<<1, 1, 0, 0, 1>>)
Ids3 == Vec(<<0, 1, 1, 2, 3, -1, 3, 4>>)
Feat3 == Vec(<<0, -1, 1, 0, 1, -1, 1, 0>>)
Scenarios == {<<Ids1, Feat1>>, <<Ids2, Feat2>>, <<Ids3, Feat3>>}

Unset == <<>>
NoRat == [kind |-> "unset", num |-> 0, den |-> 0]

InitRest ==
    /\ link_arr = Unset /\ jacc_arr = Unset
    /\ ref_link = Unset /\ ref_jacc = Unset
    /\ not_nan = Unset
    /\ n_links = NaN /\ n_jaccs = NaN /\ n_jl = NaN /\ n_pairs = 0
    /\ jl_rat = NoRat /\ jnl_rat = NoRat
    /\ out = <<>>

InitVectors ==
    \/ \E n \in 0..MaxN :
          /\ series_ids \in [1..n -> IdDomain]
          /\ feature \in [1..n -> FeatDomain]
    \/ \E sc \in Scenarios : series_ids = sc[1] /\ feature = sc[2]

Init ==
    /\ InitVectors
    /\ tri = "none" /\ link_pairs = Unset /\ jacc_pairs = Unset
    /\ pc = "start"
    /\ InitRest

(* ---------------- the caller's pipeline (the tests) ---------------- *)
LinkTable ==
    /\ pc = "start"
    /\ link_arr' = link_table(series_ids)
    /\ pc' = "linked"
    /\ UNCHANGED <<series_ids, feature, jacc_arr, ref_link, ref_jacc, tri,
                   link_pairs, jacc_pairs, not_nan, n_links, n_jaccs, n_jl,
                   n_pairs, jl_rat, jnl_rat, out>>

EqualTo ==
    /\ pc = "linked"
    /\ ref_link' = equal_to(series_ids)
    /\ pc' = "link_ref"
    /\ UNCHANGED <<series_ids, feature, link_arr, jacc_arr, ref_jacc, tri,
                   link_pairs, jacc_pairs, not_nan, n_links, n_jaccs, n_jl,
                   n_pairs, jl_rat, jnl_rat, out>>

JaccardTable ==
    /\ pc = "link_ref"
    /\ jacc_arr' = jaccard_table(feature)
    /\ pc' = "jacc"
    /\ UNCHANGED <<series_ids, feature, link_arr, ref_link, ref_jacc, tri,
                   link_pairs, jacc_pairs, not_nan, n_links, n_jaccs, n_jl,
                   n_pairs, jl_rat, jnl_rat, out>>

Both1 ==
    /\ pc = "jacc"
    /\ ref_jacc' = both_1(feature)
    /\ pc' = "tables"
    /\ UNCHANGED <<series_ids, feature, link_arr, jacc_arr, ref_link, tri,
                   link_pairs, jacc_pairs, not_nan, n_links, n_jaccs, n_jl,
                   n_pairs, jl_rat, jnl_rat, out>>

Done(t) == \E k \in 1..Len(out) : out[k].tri = t

\* one triangle of both tables; after a return the caller may take the other
Extract(t) ==
    /\ pc \in {"tables", "returned"}
    /\ ~Done(t)
    /\ tri' = t
    /\ link_pairs' = Take(link_arr, Indices(t, Len(series_ids)))
    /\ jacc_pairs' = Take(jacc_arr, Indices(t, Len(feature)))
    /\ pc' = "pairs"
    /\ UNCHANGED <<series_ids, feature, link_arr, jacc_arr, ref_link,
                   ref_jacc, not_nan, n_links, n_jaccs, n_jl, n_pairs,
                   jl_rat, jnl_rat, out>>

ExtractTril == Extract("lower")
ExtractTriu == Extract("upper")

CalcRatios ==
    /\ pc = "pairs"
    /\ LET mask == mask_not_nan(link_pairs, jacc_pairs)
           lp == Select(link_pairs, mask)
           jp == Select(jacc_pairs, mask)
           nl == FSum(lp)
           nj == FSum(jp)
           njl == FSum([k \in 1..Len(lp) |-> FMul(lp[k], jp[k])])
           jl == jl_ratio(njl, nl)
           jnl == jnl_ratio(nj, njl, Len(lp), nl)
       IN /\ not_nan' = mask
          /\ n_links' = nl /\ n_jaccs' = nj /\ n_jl' = njl
          /\ n_pairs' = Len(lp)
          /\ jl_rat' = jl /\ jnl_rat' = jnl
          /\ out' = Append(out, [tri |-> tri, jl |-> jl, jnl |-> jnl])
    /\ pc' = "returned"
    /\ UNCHANGED <<series_ids, feature, link_arr, jacc_arr, ref_link,
                   ref_jacc, tri, link_pairs, jacc_pairs>>

Next == \/ LinkTable \/ EqualTo \/ JaccardTable \/ Both1
        \/ ExtractTril \/ ExtractTriu \/ CalcRatios

Spec == Init /\ [][Next]_vars

(* ---------------- calc_ratios on arbitrary pair vectors -------------- *)
InitRatios ==
    /\ series_ids = Unset /\ feature = Unset
    /\ \E m \in 0..MaxPairs :
          /\ link_pairs \in [1..m -> FeatDomain]
          /\ jacc_pairs \in [1..m -> FeatDomain]
    /\ tri = "given"
    /\ pc = "pairs"
    /\ InitRest

NextRatios == CalcRatios

SpecRatios == InitRatios /\ [][NextRatios]_vars

(* ---------------- the earlier version's link table -------------- *)
LinkTableEarlier ==
    /\ pc = "start"
    /\ link_arr' = link_table_earlier(series_ids)
    /\ pc' = "linked"
    /\ UNCHANGED <<series_ids, feature, jacc_arr, ref_link, ref_jacc, tri,
                   link_pairs, jacc_pairs, not_nan, n_links, n_jaccs, n_jl,
                   n_pairs, jl_rat, jnl_rat, out>>

SameasEq ==
    /\ pc = "linked"
    /\ ref_link' = sameas_eq(series_ids)
    /\ pc' = "link_ref"
    /\ UNCHANGED <<series_ids, feature, link_arr, jacc_arr, ref_jacc, tri,
                   link_pairs, jacc_pairs, not_nan, n_links, n_jaccs, n_jl,
                   n_pairs, jl_rat, jnl_rat, out>>

NextEarlier == LinkTableEarlier \/ SameasEq

SpecEarlier == Init /\ [][NextEarlier]_vars

(* ====================== properties ====================== *)
N == Len(series_ids)
Missing(x) == x.nan
LinkBuilt == pc # "start"
JaccBuilt == pc \in {"jacc", "tables", "pairs", "returned"}

\* C1: link_table returns an n x n matrix whose entry (i,j) is missing if
\* identifier i or j is missing, else 1 if the identifiers are equal and 0
\* otherwise; it equals the reference equal_to element for element (missing
\* equal to missing); the diagonal is 1 unless the identifier is missing.
C1_LinkTruthTable ==
    LinkBuilt =>
      /\ Len(link_arr) = N
      /\ \A i \in 1..N :
            /\ Len(link_arr[i]) = N
            /\ link_arr[i][i] =
                 (IF Missing(series_ids[i]) THEN NaN ELSE Fl(1))
            /\ \A j \in 1..N :
                 link_arr[i][j] =
                   (IF Missing(series_ids[i]) \/ Missing(series_ids[j])
                    THEN NaN
                    ELSE IF series_ids[i].v = series_ids[j].v THEN Fl(1)
                    ELSE Fl(0))
      /\ (pc # "linked" => link_arr = ref_link)

C1_Witness ==
    /\ pc = "link_ref"
    /\ \E i, j, k \in 1..N :
          /\ i # j /\ Missing(series_ids[k])
          /\ link_arr[i][j] = Fl(1)
          /\ link_arr[k][k] = NaN
          /\ \E m \in 1..N : link_arr[i][m] = Fl(0)

\* C2: jaccard_table returns an n x n matrix whose entry (i,j) is 0 if
\* feature i or j is 0 (even when the other is missing), otherwise missing
\* if either is missing, otherwise 1; it equals the reference both_1.
C2_JaccardTruthTable ==
    JaccBuilt =>
      /\ Len(jacc_arr) = N
      /\ \A i, j \in 1..N :
            /\ Len(jacc_arr[i]) = N
            /\ jacc_arr[i][j] =
                 (IF feature[i] = Fl(0) \/ feature[j] = Fl(0) THEN Fl(0)
                  ELSE IF Missing(feature[i]) \/ Missing(feature[j]) THEN NaN
                  ELSE Fl(1))
      /\ (pc # "jacc" => jacc_arr = ref_jacc)

C2_Witness ==
    /\ pc = "tables"
    /\ \E i, j, k \in 1..N :
          /\ feature[i] = Fl(0) /\ Missing(feature[j]) /\ feature[k] = Fl(1)
          /\ jacc_arr[i][j] = Fl(0) /\ jacc_arr[j][i] = Fl(0)
          /\ jacc_arr[j][k] = NaN /\ jacc_arr[k][k] = Fl(1)

\* positions of the given pair vectors where both values are observed
Observed == {k \in 1..Len(link_pairs) :
                ~Missing(link_pairs[k]) /\ ~Missing(jacc_pairs[k])}
CntLinks == Cardinality({k \in Observed : link_pairs[k].v = 1})
CntJaccs == Cardinality({k \in Observed : jacc_pairs[k].v = 1})
CntJL == Cardinality({k \in Observed :
                         link_pairs[k].v = 1 /\ jacc_pairs[k].v = 1})
CntPairs == Cardinality(Observed)

\* C3: calc_ratios does joint exclusion: position k contributes to n_links,
\* n_jaccs, n_jl and the pair count iff both link_pairs[k] and jacc_pairs[k]
\* are non-missing, and the returned ratios are n_jl / n_links and
\* (n_jaccs - n_jl) / (n_pairs - n_links) over those positions only.
C3_JointExclusion ==
    pc = "returned" =>
      /\ \A k \in 1..Len(link_pairs) : not_nan[k] <=> (k \in Observed)
      /\ n_links = Fl(CntLinks) /\ n_jaccs = Fl(CntJaccs)
      /\ n_jl = Fl(CntJL) /\ n_pairs = CntPairs
      /\ (CntLinks # 0 => jl_rat = Quot(CntJL, CntLinks))
      /\ (CntPairs - CntLinks # 0 =>
            jnl_rat = Quot(CntJaccs - CntJL, CntPairs - CntLinks))

C3_Witness ==
    /\ pc = "returned"
    /\ \E a, b, c \in 1..Len(link_pairs) :
          /\ Missing(link_pairs[a]) /\ jacc_pairs[a] = Fl(1)
          /\ link_pairs[b] = Fl(1) /\ Missing(jacc_pairs[b])
          /\ c \in Observed
    /\ n_pairs = 1

\* C4: the matrices returned by link_table and jaccard_table are symmetric,
\* with missing at (i,j) exactly when missing at (j,i).
C4_Symmetric ==
    /\ LinkBuilt => \A i, j \in 1..N : link_arr[i][j] = link_arr[j][i]
    /\ JaccBuilt => \A i, j \in 1..N : jacc_arr[i][j] = jacc_arr[j][i]

C4_Witness ==
    /\ pc = "tables"
    /\ \E i, j \in 1..N :
          /\ i # j
          /\ Missing(series_ids[i]) /\ ~Missing(series_ids[j])
          /\ Missing(feature[i]) /\ feature[j] = Fl(0)
          /\ link_arr[j][i] = NaN /\ jacc_arr[j][i] = Fl(0)

IsVal(q) == q.kind = "val"

\* C5: calc_ratios never raises on a zero denominator: with no linked pair
\* left jl_ratio is NaN, with no non-linked pair left jnl_ratio is NaN, with
\* no observed pair left both are; the numerator is then 0 too, so the
\* result is 0/0 and never an infinity, and the other ratio keeps its value.
C5_DegenerateDenominator ==
    pc = "returned" =>
      /\ jl_rat.kind \in {"val", "nan"} /\ jnl_rat.kind \in {"val", "nan"}
      /\ (n_links = Fl(0) => jl_rat = QNaN /\ n_jl = Fl(0))
      /\ (Fl(n_pairs) = n_links =>
            jnl_rat = QNaN /\ FSub(n_jaccs, n_jl) = Fl(0))
      /\ (n_pairs = 0 => jl_rat = QNaN /\ jnl_rat = QNaN)
      /\ (n_links = Fl(0) /\ n_pairs # 0 =>
            jnl_rat = Quot(n_jaccs.v, n_pairs))
      /\ (Fl(n_pairs) = n_links /\ n_pairs # 0 =>
            jl_rat = Quot(n_jl.v, n_pairs))

C5_Witness ==
    /\ pc = "returned"
    /\ n_links = Fl(0) /\ n_pairs = 2 /\ Len(link_pairs) = 3
    /\ jl_rat = QNaN /\ jnl_rat = Frac(1, 2)

\* C6: each ratio returned by calc_ratios is undefined or lies in [0, 1]:
\* 0 <= n_jl <= n_links and 0 <= n_jaccs - n_jl <= n_pairs - n_links.
C6_RatioBounds ==
    pc = "returned" =>
      /\ ~Missing(n_jl) /\ ~Missing(n_links) /\ ~Missing(n_jaccs)
      /\ 0 <= n_jl.v /\ n_jl.v <= n_links.v
      /\ 0 <= n_jaccs.v - n_jl.v
      /\ n_jaccs.v - n_jl.v <= n_pairs - n_links.v
      /\ \A q \in {jl_rat, jnl_rat} :
            \/ q = QNaN
            \/ IsVal(q) /\ 0 <= q.num /\ q.num <= q.den /\ q.den > 0

C6_Witness ==
    /\ pc = "returned"
    /\ jl_rat = Frac(1, 2) /\ jnl_rat = Frac(1, 1)

LowerOut == {out[k] : k \in {m \in 1..Len(out) : out[m].tri = "lower"}}

\* C7: the whole pipeline over the strict lower triangle gives 3/4 and 3/24
\* on the first literal scenario, 1/3 and 2/7 on the second, 1 and 2/17 on
\* the third (the one with missing data).
C7_LiteralScenarios ==
    \A r \in LowerOut :
      /\ (series_ids = Ids1 /\ feature = Feat1 =>
            r.jl = Quot(3, 4) /\ r.jnl = Quot(3, 24))
      /\ (series_ids = Ids2 /\ feature = Feat2 =>
            r.jl = Quot(1, 3) /\ r.jnl = Quot(2, 7))
      /\ (series_ids = Ids3 /\ feature = Feat3 =>
            r.jl = Quot(1, 1) /\ r.jnl = Quot(2, 17))

C7_Witness ==
    /\ series_ids = Ids3 /\ feature = Feat3
    /\ pc = "returned" /\ tri = "lower"
    /\ jl_rat = Frac(1, 1) /\ jnl_rat = Frac(2, 17)

\* C8: calc_ratios on the strict upper-triangle pair vectors returns the
\* same two ratios as on the strict lower-triangle pair vectors, undefined
\* counted equal to undefined.
C8_EitherTriangle ==
    \A a, b \in 1..Len(out) :
       out[a].jl = out[b].jl /\ out[a].jnl = out[b].jnl

C8_Witness ==
    /\ Len(out) = 2 /\ out[1].tri # out[2].tri
    /\ Take(link_arr, tril_indices(N)) # Take(link_arr, triu_indices(N))
    /\ Take(jacc_arr, tril_indices(N)) # Take(jacc_arr, triu_indices(N))
    /\ \E k \in 1..Len(not_nan) : ~not_nan[k]
    /\ IsVal(jl_rat) /\ IsVal(jnl_rat)

Scenario3Returned ==
    /\ series_ids = Ids3 /\ feature = Feat3
    /\ pc = "returned"
RecordMissing(i) == Missing(series_ids[i]) \/ Missing(feature[i])
PairOf(k) == Indices(tri, N)[k]

\* C9 as stated: in the third scenario every pair touching a record with a
\* missing identifier or a missing feature value is excluded, and only the
\* pairs touching none of those records are counted.
C9_AllTouchingExcluded ==
    Scenario3Returned =>
      /\ \A k \in 1..Len(not_nan) :
            not_nan[k] <=> (~RecordMissing(PairOf(k)[1])
                            /\ ~RecordMissing(PairOf(k)[2]))
      /\ n_pairs = Cardinality({k \in 1..Len(not_nan) :
                                  ~RecordMissing(PairOf(k)[1])
                                  /\ ~RecordMissing(PairOf(k)[2])})

\* C9 amended: in the third scenario a pair is excluded iff one of its two
\* identifiers is missing, or one of its two feature values is missing and
\* neither is 0; a pair of a missing feature value with a 0 is counted, so
\* 18 of the 28 pairs are counted.
C9_ExcludedUnlessZero ==
    Scenario3Returned =>
      /\ \A k \in 1..Len(not_nan) :
            LET i == PairOf(k)[1]
                j == PairOf(k)[2]
            IN not_nan[k] <=>
                 /\ ~Missing(series_ids[i]) /\ ~Missing(series_ids[j])
                 /\ \/ feature[i] = Fl(0) \/ feature[j] = Fl(0)
                    \/ ~Missing(feature[i]) /\ ~Missing(feature[j])
      /\ Len(not_nan) = 28 /\ n_pairs = 18
      /\ n_links = Fl(1) /\ n_jl = Fl(1) /\ n_jaccs = Fl(3)

C9_Witness ==
    /\ Scenario3Returned /\ tri = "lower"
    /\ \E k \in 1..Len(not_nan) :
          /\ PairOf(k) = <<4, 2>>
          /\ Missing(feature[2]) /\ feature[4] = Fl(0)
          /\ not_nan[k]
    /\ n_pairs = 18

====
